---- MODULE Spec2Model ----
(***************************************************************************)
(* The AQI India dashboard (src/main.py): a Streamlit script that is run  *)
(* from top to bottom on every user interaction.  The dataset is read by  *)
(* load_data(), which st.cache_data memoises for the life of the server   *)
(* process; every run then derives the alert banner and the outputs of    *)
(* the selected section from the dataset it got.                           *)
(*                                                                         *)
(* A reading (pollutant_avg) is <<v>> for the number v and <<>> for a      *)
(* missing value (pandas NaN).  A mean is <<sum, count>> over the present  *)
(* readings of a group, or <<>> when the group has none.  A record keeps   *)
(* the columns the script computes with: state, city, pollutant_avg and,   *)
(* after load_data, AQI_Category.  The category labels are the source's    *)
(* labels without their leading glyph.                                     *)
(***************************************************************************)
EXTENDS Integers, Sequences, FiniteSets, TLC

VARIABLES
    file,             \* contents of AQI.csv on disk: a sequence of rows
    cache,            \* st.cache_data entry of load_data: <<>> or <<dataset>>
    parses,           \* how many times the body of load_data has run
    df,               \* the script's df after the last run
    filtered_df,      \* the script's filtered_df after the last run
    section,          \* sidebar radio; "" while no page has been served
    filter_option,    \* Visual Overview radio
    selected,         \* Visual Overview multiselect
    show_outliers,    \* Visual Overview checkbox
    selected_columns, \* Download & Reports multiselect
    alert,            \* whether the last run showed the pollution banner
    category_counts,  \* Main Overview: AQI_Category value counts
    state_avg,        \* Statistical Overview: state-wise averages
    cleanest_cities,  \* Statistical Overview: top 5 cleanest cities
    csv,              \* Download & Reports: rows handed to the download button
    edited,           \* whether AQI.csv was edited after the last run
    value,            \* a reading handed to the classifier on its own
    label,            \* the classifier's answer for value; "" before it ran
    pc                \* "serving" for the dashboard; "start"/"done" for one call

vars == <<file, cache, parses, df, filtered_df, section, filter_option, selected,
          show_outliers, selected_columns, alert, category_counts, state_avg,
          cleanest_cities, csv, edited, value, label, pc>>

-----------------------------------------------------------------------------
(* Bounds *)

MaxRecords == 2

MaxParses == 2

Margin == 10

-----------------------------------------------------------------------------
(* Values *)

NaN == <<>>

IsNaN(x) == x = <<>>

Min(a, b) == IF a <= b THEN a ELSE b

\* Python's comparisons on a float: every comparison with NaN is False.
Le(x, n) == ~IsNaN(x) /\ x[1] <= n

Gt(x, n) == ~IsNaN(x) /\ x[1] > n

Sections == {"Main Overview", "Statistical Overview", "Visual Overview",
             "Geographical Overview", "Download & Reports"}

FilterOptions == {"State", "City"}

Categories == {"Good", "Moderate", "Unhealthy (Sensitive)", "Unhealthy", "Hazardous"}

\* The places of the model, in ascending order of state and of city name.
Places == << [state |-> "A", city |-> "c1"], [state |-> "A", city |-> "c2"],
             [state |-> "B", city |-> "c3"], [state |-> "B", city |-> "c4"],
             [state |-> "C", city |-> "c5"], [state |-> "C", city |-> "c6"] >>

\* Every name a filter may be asked for, in ascending (string) order.
Names == <<"A", "B", "C", "NoSuchCity", "NoSuchState", "c1", "c2", "c3", "c4", "c5", "c6">>

Rank(n) == CHOOSE i \in 1..Len(Names) : Names[i] = n

Row(place, reading) ==
    [state |-> Places[place].state, city |-> Places[place].city, pollutant_avg |-> reading]

\* Rows the dashboard's file is made of: a reading on the alert threshold, a
\* missing reading, and a reading above the threshold, in two states.
RowTypes == {Row(1, <<200>>), Row(2, NaN), Row(3, <<201>>)}

RECURSIVE SeqsUpTo(_, _)
SeqsUpTo(S, n) ==
    IF n = 0 THEN {<<>>}
    ELSE LET shorter == SeqsUpTo(S, n - 1)
         IN  shorter \cup {Append(s, e) : s \in {t \in shorter : Len(t) = n - 1}, e \in S}

Files == SeqsUpTo(RowTypes, MaxRecords)

-----------------------------------------------------------------------------
(* load_data *)

\* Variant: the thresholds taken as exclusive upper bounds.
aqi_category_strict(v) ==
    IF ~IsNaN(v) /\ v[1] < 50 THEN "Good"
    ELSE IF ~IsNaN(v) /\ v[1] < 100 THEN "Moderate"
    ELSE IF ~IsNaN(v) /\ v[1] < 150 THEN "Unhealthy (Sensitive)"
    ELSE IF ~IsNaN(v) /\ v[1] < 200 THEN "Unhealthy"
    ELSE "Hazardous"

\* aqi_category: the first threshold the reading does not exceed decides.
aqi_category(v) ==
    IF Le(v, 50) THEN "Good"
    ELSE IF Le(v, 100) THEN "Moderate"
    ELSE IF Le(v, 150) THEN "Unhealthy (Sensitive)"
    ELSE IF Le(v, 200) THEN "Unhealthy"
    ELSE "Hazardous"

\* The body of load_data: read the rows and add the AQI_Category column.
ReadAndClassify(f) ==
    [i \in 1..Len(f) |->
        [state |-> f[i].state, city |-> f[i].city, pollutant_avg |-> f[i].pollutant_avg,
         AQI_Category |-> aqi_category(f[i].pollutant_avg)]]

\* Variant: load_data without st.cache_data.
load_data_uncached(c, f) == [df |-> ReadAndClassify(f), parsed |-> TRUE]

\* Variant: a cache entry that is dropped when the file no longer matches it.
load_data_by_contents(c, f) ==
    IF c # <<>> /\ c[1] = ReadAndClassify(f)
    THEN [df |-> c[1], parsed |-> FALSE]
    ELSE [df |-> ReadAndClassify(f), parsed |-> TRUE]

\* load_data under st.cache_data: it takes no argument, so the one entry is
\* returned (as a copy) whenever it exists, and the body runs only on a miss.
load_data(c, f) ==
    IF c # <<>>
    THEN [df |-> c[1], parsed |-> FALSE]
    ELSE [df |-> ReadAndClassify(f), parsed |-> TRUE]

-----------------------------------------------------------------------------
(* The alert banner *)

\* Series.max(): the largest present reading, NaN when there is none.
SeriesMax(d) ==
    LET present == {i \in 1..Len(d) : ~IsNaN(d[i].pollutant_avg)}
    IN  IF present = {} THEN NaN
        ELSE LET top == CHOOSE i \in present :
                            \A j \in present : d[j].pollutant_avg[1] <= d[i].pollutant_avg[1]
             IN  d[top].pollutant_avg

\* Variant: the banner at 200 and above.
alert_inclusive(d) == ~IsNaN(SeriesMax(d)) /\ SeriesMax(d)[1] >= 200

\* The banner condition: df["pollutant_avg"].max() > 200.
AlertSystem(d) == Gt(SeriesMax(d), 200)

-----------------------------------------------------------------------------
(* Main Overview *)

\* value_counts(): one count per label that occurs in the column.
value_counts(d) ==
    [c \in {d[i].AQI_Category : i \in 1..Len(d)} |->
        Cardinality({i \in 1..Len(d) : d[i].AQI_Category = c})]

-----------------------------------------------------------------------------
(* Statistical Overview *)

RECURSIVE SumReadings(_)
\* Sum of the present readings of a sequence of records.
SumReadings(d) ==
    IF d = <<>> THEN 0
    ELSE (IF IsNaN(Head(d).pollutant_avg) THEN 0 ELSE Head(d).pollutant_avg[1])
         + SumReadings(Tail(d))

IsPresent(r) == ~IsNaN(r.pollutant_avg)

\* Series.mean(): missing readings are skipped; NaN when none is present.
mean(d) ==
    LET present == SelectSeq(d, IsPresent)
    IN  IF present = <<>> THEN NaN ELSE <<SumReadings(present), Len(present)>>

\* a < b for two present means
MeanLess(a, b) == a[1] * b[2] < b[1] * a[2]

\* groupby(by)['pollutant_avg'].mean(): one entry per key that occurs.
groupby_mean(d, by) ==
    { [key |-> k,
       pollutant_avg |-> LET InGroup(r) == r[by] = k IN mean(SelectSeq(d, InGroup))]
      : k \in {d[i][by] : i \in 1..Len(d)} }

RECURSIVE InKeyOrder(_)
\* The entries of a groupby result as it lists them: ascending by key.
InKeyOrder(S) ==
    IF S = {} THEN <<>>
    ELSE LET e == CHOOSE x \in S : \A y \in S : Rank(x.key) <= Rank(y.key)
         IN  <<e>> \o InKeyOrder(S \ {e})

RECURSIVE Orderings(_, _)
\* Every arrangement of entries with present means that is sorted by mean in
\* the asked direction.  The default sort kind (quicksort) is not stable, so
\* entries of equal mean may come out in any order.
Orderings(S, ascending) ==
    IF S = {} THEN {<<>>}
    ELSE LET first == {e \in S : \A o \in S :
                          IF ascending THEN ~MeanLess(o.pollutant_avg, e.pollutant_avg)
                                       ELSE ~MeanLess(e.pollutant_avg, o.pollutant_avg)}
         IN  UNION {{<<e>> \o t : t \in Orderings(S \ {e}, ascending)} : e \in first}

\* Series.sort_values(ascending=...): the possible results; NaN means go last
\* (na_position='last'), in the order the groupby listed them.
sort_values(S, ascending) ==
    LET nums == {e \in S : ~IsNaN(e.pollutant_avg)}
    IN  {o \o InKeyOrder(S \ nums) : o \in Orderings(nums, ascending)}

head(s, n) == SubSeq(s, 1, Min(n, Len(s)))

\* Variant: the state averages sorted ascending.
state_avg_ascending(d) == sort_values(groupby_mean(d, "state"), TRUE)

StateAvg(d) == sort_values(groupby_mean(d, "state"), FALSE)

\* Variant: the five cities taken from the descending list.
cleanest_cities_descending(d) == {head(o, 5) : o \in sort_values(groupby_mean(d, "city"), FALSE)}

CleanestCities(d) == {head(o, 5) : o \in sort_values(groupby_mean(d, "city"), TRUE)}

-----------------------------------------------------------------------------
(* Visual Overview *)

\* filter_option.lower()
Lower(option) == IF option = "State" THEN "state" ELSE "city"

\* df[column].unique(): the options the multiselect offers
Unique(d, column) == {d[i][column] : i \in 1..Len(d)}

\* df[df[column].isin(chosen)]
Isin(d, column, chosen) ==
    LET Keep(r) == r[column] \in chosen IN SelectSeq(d, Keep)

\* Variant: the filter assigned to df itself.
VisualOverview_in_place(d, option, chosen) ==
    LET view == IF chosen # {} THEN Isin(d, Lower(option), chosen) ELSE d
    IN  [df |-> view, filtered_df |-> view]

\* Variant: the filter applied to an empty selection too.
VisualOverview_no_convention(d, option, chosen) ==
    [df |-> d, filtered_df |-> Isin(d, Lower(option), chosen)]

\* The script's df and filtered_df after the filter of the Visual Overview:
\* filtered_df is df.copy() unless something is selected.
VisualOverview(d, option, chosen) ==
    [df |-> d,
     filtered_df |-> IF chosen # {} THEN Isin(d, Lower(option), chosen) ELSE d]

-----------------------------------------------------------------------------
(* Download & Reports *)

Columns == <<"state", "city", "pollutant_avg", "AQI_Category">>

\* The column lists the multiselect can hold after removing columns from its
\* default, all of df.columns.
ColumnChoices ==
    {SelectSeq(Columns, LAMBDA c : c \in keep) : keep \in SUBSET {Columns[i] : i \in 1..Len(Columns)}}

\* One cell as to_csv writes it: a missing reading is an empty field.
Cell(r, column) ==
    IF column = "pollutant_avg"
    THEN (IF IsNaN(r.pollutant_avg) THEN "" ELSE ToString(r.pollutant_avg[1]))
    ELSE r[column]

\* frame[columns].to_csv(index=False): the header line, then a line per record.
to_csv(frame, columns) ==
    <<columns>> \o [i \in 1..Len(frame) |->
                      [j \in 1..Len(columns) |-> Cell(frame[i], columns[j])]]

-----------------------------------------------------------------------------
(* The dashboard: one script run per interaction *)

\* One run of the script from top to bottom with the given widget values.
\* Widgets of a section that is not rendered do not exist in that run; the
\* variables that hold them are put back to the widgets' defaults.
Run(sec, option, chosen, outliers, columns) ==
    LET loaded == load_data(cache, file)
        shown  == IF sec = "Visual Overview"
                  THEN VisualOverview(loaded.df, option, chosen)
                  ELSE [df |-> loaded.df, filtered_df |-> loaded.df]
    IN  /\ loaded.parsed => parses < MaxParses
        /\ cache' = <<loaded.df>>
        /\ parses' = IF loaded.parsed THEN parses + 1 ELSE parses
        /\ df' = shown.df
        /\ filtered_df' = shown.filtered_df
        /\ alert' = AlertSystem(loaded.df)
        /\ section' = sec
        /\ filter_option' = option
        /\ selected' = chosen
        /\ show_outliers' = outliers
        /\ selected_columns' = columns
        /\ category_counts' = IF sec = "Main Overview" THEN value_counts(shown.df) ELSE <<>>
        /\ state_avg' \in IF sec = "Statistical Overview" THEN StateAvg(shown.df) ELSE {<<>>}
        /\ cleanest_cities' \in IF sec = "Statistical Overview"
                                THEN CleanestCities(shown.df) ELSE {<<>>}
        /\ csv' = IF sec = "Download & Reports"
                  THEN to_csv(shown.filtered_df, columns) ELSE <<>>
        /\ edited' = FALSE
        /\ UNCHANGED <<file, value, label, pc>>

NoWidgets ==
    /\ filter_option = "State"
    /\ selected = {}
    /\ show_outliers = FALSE
    /\ selected_columns = Columns

NoOutputs ==
    /\ df = <<>>
    /\ filtered_df = <<>>
    /\ alert = FALSE
    /\ category_counts = <<>>
    /\ state_avg = <<>>
    /\ cleanest_cities = <<>>
    /\ csv = <<>>
    /\ edited = FALSE

\* The server process has started and has served no page yet.
Init ==
    /\ file \in Files
    /\ cache = <<>>
    /\ parses = 0
    /\ section = ""
    /\ NoWidgets
    /\ NoOutputs
    /\ value = NaN
    /\ label = ""
    /\ pc = "serving"

\* A browser opens (or reloads) the page: a new session with default widgets.
OpenPage ==
    /\ pc = "serving"
    /\ Run("Main Overview", "State", {}, FALSE, Columns)

\* The sidebar radio moves to another section.
SelectSection(sec) ==
    /\ pc = "serving"
    /\ section # ""
    /\ sec # section
    /\ Run(sec, "State", {}, FALSE, Columns)

\* "Filter data by:" changes; the multiselect it labels starts empty.
ChooseFilterOption(option) ==
    /\ pc = "serving"
    /\ section = "Visual Overview"
    /\ option # filter_option
    /\ Run(section, option, {}, show_outliers, selected_columns)

\* The multiselect changes to a set of the values it offers.
ChangeSelected ==
    /\ pc = "serving"
    /\ section = "Visual Overview"
    /\ \E chosen \in SUBSET Unique(df, Lower(filter_option)) :
          /\ chosen # selected
          /\ Run(section, filter_option, chosen, show_outliers, selected_columns)

ToggleOutliers ==
    /\ pc = "serving"
    /\ section = "Visual Overview"
    /\ Run(section, filter_option, selected, ~show_outliers, selected_columns)

SelectColumns(columns) ==
    /\ pc = "serving"
    /\ section = "Download & Reports"
    /\ columns # selected_columns
    /\ Run(section, filter_option, selected, show_outliers, columns)

\* "Submit Feedback": the run only shows a thank-you in the sidebar.
SubmitFeedback ==
    /\ pc = "serving"
    /\ section # ""
    /\ Run(section, filter_option, selected, show_outliers, selected_columns)

\* What one edit of AQI.csv can leave: a row added at the end, or the last row
\* removed.  Any rewrite of the file is a sequence of such edits.
Edits(f) ==
    {Append(f, r) : r \in IF Len(f) < MaxRecords THEN RowTypes ELSE {}}
        \cup (IF f = <<>> THEN {} ELSE {SubSeq(f, 1, Len(f) - 1)})

\* AQI.csv is edited on disk while the process runs.
ModifySource(f) ==
    /\ pc = "serving"
    /\ f \in Edits(file)
    /\ file' = f
    /\ edited' = (section # "")
    /\ UNCHANGED <<cache, parses, df, filtered_df, section, filter_option, selected,
                   show_outliers, selected_columns, alert, category_counts, state_avg,
                   cleanest_cities, csv, value, label, pc>>

Next ==
    \/ OpenPage
    \/ \E sec \in Sections : SelectSection(sec)
    \/ \E option \in FilterOptions : ChooseFilterOption(option)
    \/ ChangeSelected
    \/ ToggleOutliers
    \/ \E columns \in ColumnChoices : SelectColumns(columns)
    \/ SubmitFeedback
    \/ \E f \in Files : ModifySource(f)

Spec == Init /\ [][Next]_vars

-----------------------------------------------------------------------------
(* The classifier on its own *)

Idle ==
    /\ cache = <<>>
    /\ parses = 0
    /\ NoWidgets
    /\ NoOutputs

Readings == {NaN} \cup {<<v>> : v \in (0 - Margin)..(200 + Margin)}

InitClassify ==
    /\ value \in Readings
    /\ label = ""
    /\ file = <<>>
    /\ section = ""
    /\ Idle
    /\ pc = "start"

Classify ==
    /\ pc = "start"
    /\ label' = aqi_category(value)
    /\ pc' = "done"
    /\ UNCHANGED <<file, cache, parses, df, filtered_df, section, filter_option, selected,
                   show_outliers, selected_columns, alert, category_counts, state_avg,
                   cleanest_cities, csv, edited, value>>

SpecClassify == InitClassify /\ [][Classify]_vars

-----------------------------------------------------------------------------
(* The Visual Overview filter on its own, for any selection *)

\* The values a selection may name, present in the dataset or not.
Selectable(option) ==
    IF option = "State" THEN {"A", "B", "NoSuchState"}
    ELSE {"c1", "c2", "c3", "NoSuchCity"}

InitFilter ==
    /\ file \in Files
    /\ cache = <<ReadAndClassify(file)>>
    /\ parses = 1
    /\ df = ReadAndClassify(file)
    /\ filtered_df = df
    /\ alert = AlertSystem(df)
    /\ section = "Visual Overview"
    /\ filter_option \in FilterOptions
    /\ selected \in SUBSET Selectable(filter_option)
    /\ show_outliers = FALSE
    /\ selected_columns = Columns
    /\ category_counts = <<>>
    /\ state_avg = <<>>
    /\ cleanest_cities = <<>>
    /\ csv = <<>>
    /\ edited = FALSE
    /\ value = NaN
    /\ label = ""
    /\ pc = "start"

ApplyFilter ==
    /\ pc = "start"
    /\ LET shown == VisualOverview(df, filter_option, selected)
       IN  /\ df' = shown.df
           /\ filtered_df' = shown.filtered_df
    /\ pc' = "done"
    /\ UNCHANGED <<file, cache, parses, section, filter_option, selected, show_outliers,
                   selected_columns, alert, category_counts, state_avg, cleanest_cities,
                   csv, edited, value, label>>

SpecFilter == InitFilter /\ [][ApplyFilter]_vars

-----------------------------------------------------------------------------
(* The Statistical Overview on its own, over datasets of six cities *)

\* The readings one city reports: none, a missing one, one, or two of which
\* one may be missing.
ReadingLists == {<<>>, <<NaN>>, << <<60>> >>, <<NaN, <<180>> >>, << <<60>>, <<180>> >>}

RECURSIVE RowsOf(_, _)
\* The file that lists, place by place from place p on, a row per reading.
RowsOf(layout, p) ==
    IF p > Len(Places) THEN <<>>
    ELSE [i \in 1..Len(layout[p]) |-> Row(p, layout[p][i])] \o RowsOf(layout, p + 1)

InitAgg ==
    /\ \E layout \in [1..Len(Places) -> ReadingLists] : file = RowsOf(layout, 1)
    /\ cache = <<ReadAndClassify(file)>>
    /\ parses = 1
    /\ df = ReadAndClassify(file)
    /\ filtered_df = df
    /\ alert = AlertSystem(df)
    /\ section = "Statistical Overview"
    /\ NoWidgets
    /\ category_counts = <<>>
    /\ state_avg = <<>>
    /\ cleanest_cities = <<>>
    /\ csv = <<>>
    /\ edited = FALSE
    /\ value = NaN
    /\ label = ""
    /\ pc = "start"

StatisticalOverview ==
    /\ pc = "start"
    /\ state_avg' \in StateAvg(df)
    /\ cleanest_cities' \in CleanestCities(df)
    /\ pc' = "done"
    /\ UNCHANGED <<file, cache, parses, df, filtered_df, section, filter_option, selected,
                   show_outliers, selected_columns, alert, category_counts, csv, edited,
                   value, label>>

SpecAgg == InitAgg /\ [][StatisticalOverview]_vars

-----------------------------------------------------------------------------
(* Properties *)

\* C1: for every numeric reading the classifier answers exactly one of the
\* five labels, chosen by the thresholds <= 50, <= 100, <= 150, <= 200 and
\* above 200, so that 50, 100, 150 and 200 fall in the less severe category.
C1_Thresholds ==
    (pc = "done" /\ ~IsNaN(value)) =>
        LET v == value[1]
        IN  /\ label \in Categories
            /\ (label = "Good") = (v <= 50)
            /\ (label = "Moderate") = (50 < v /\ v <= 100)
            /\ (label = "Unhealthy (Sensitive)") = (100 < v /\ v <= 150)
            /\ (label = "Unhealthy") = (150 < v /\ v <= 200)
            /\ (label = "Hazardous") = (v > 200)

C1_Boundary == pc = "done" /\ value = <<200>> /\ label = "Unhealthy"

CountOf(counts, c) == IF c \in DOMAIN counts THEN counts[c] ELSE 0

\* C2: the counts the category distribution reports for the five categories
\* sum to the number of records whose pollutant_avg is present; a record
\* with a missing pollutant_avg is counted under none of the five.
C2_CountsOnlyPresent ==
    section = "Main Overview" =>
        CountOf(category_counts, "Good") + CountOf(category_counts, "Moderate")
            + CountOf(category_counts, "Unhealthy (Sensitive)")
            + CountOf(category_counts, "Unhealthy") + CountOf(category_counts, "Hazardous")
        = Cardinality({i \in 1..Len(df) : ~IsNaN(df[i].pollutant_avg)})

\* C3: an empty selection leaves the view equal to the whole dataset; any
\* other selection gives exactly the records whose field is selected, in
\* dataset order, so a selection that matches nothing gives an empty view.
C3_FilterBy ==
    pc = "done" =>
        LET all  == cache[1]
            keep == {i \in 1..Len(all) : all[i][Lower(filter_option)] \in selected}
        IN  /\ selected = {} => filtered_df = all
            /\ selected # {} =>
                /\ Len(filtered_df) = Cardinality(keep)
                /\ \A i \in keep :
                       filtered_df[Cardinality({j \in keep : j <= i})] = all[i]

C3_NoMatch ==
    /\ pc = "done"
    /\ selected = {"NoSuchState"}
    /\ Len(df) = MaxRecords
    /\ filtered_df = <<>>

\* C4: the banner is shown exactly when some present pollutant_avg of the
\* dataset is above 200, whatever the section and the filter selection; a
\* maximum of exactly 200, an empty dataset or only missing readings show none.
C4_Alert ==
    section # "" =>
        (alert <=> \E i \in 1..Len(cache[1]) :
                       /\ cache[1][i].pollutant_avg # NaN
                       /\ cache[1][i].pollutant_avg[1] > 200)

C4_AlertDespiteFilter ==
    /\ section = "Visual Overview"
    /\ selected # {}
    /\ alert
    /\ \A i \in 1..Len(filtered_df) : Le(filtered_df[i].pollutant_avg, 200)

\* C5: no interaction changes the dataset: after every step df is the
\* dataset load_data produced, record for record, and every record's
\* AQI_Category is the classifier's answer for its pollutant_avg.
C5_DatasetUnchanged ==
    [][section # "" =>
          /\ df' = df
          /\ df' = cache[1]
          /\ \A i \in 1..Len(df') :
                 df'[i].AQI_Category = aqi_category(df'[i].pollutant_avg)]_vars

C5_ViewIsSubset ==
    /\ section = "Visual Overview"
    /\ selected # {}
    /\ Len(filtered_df) < Len(df)
    /\ df = cache[1]

\* C6: while the source file stays as it is, a run after the first does not
\* parse it again and gets the dataset the first load produced.
C6_ParsedOnce ==
    [][(cache # <<>> /\ file' = file) =>
          /\ parses' = parses
          /\ cache' = cache
          /\ df' = cache[1]]_vars

C6_ServedFromCache ==
    /\ section = "Download & Reports"
    /\ parses = 1
    /\ ~edited
    /\ Len(df) = MaxRecords
    /\ df = ReadAndClassify(file)

\* C9: when Download & Reports is opened from a Visual Overview with a
\* selection, the CSV holds the records of that filtered view, restricted to
\* the selected columns.
C9_ExportIsFilteredView ==
    [][(section = "Visual Overview" /\ selected # {} /\ section' = "Download & Reports") =>
          csv' = to_csv(Isin(df, Lower(filter_option), selected), selected_columns')]_vars

\* C10 as stated: a run that follows an edit of the source returns the
\* dataset of the edited file.
C10_ReloadsAfterEdit ==
    (section # "" /\ ~edited) => df = ReadAndClassify(file)

\* C10: the cache has one entry, not keyed by the file; once filled it is
\* never dropped, and a run that follows an edit of the source does not
\* parse the file but returns the dataset loaded from the earlier contents.
C10_CacheOutlivesEdit ==
    [][(section # "" /\ edited /\ ~edited') =>
          /\ parses' = parses
          /\ cache' = cache
          /\ df' = cache[1]]_vars

C10_StaleServed ==
    /\ section # ""
    /\ ~edited
    /\ df # ReadAndClassify(file)
    /\ df = cache[1]

\* The records of df whose column `by` holds k and whose reading is present.
PresentRows(by, k) ==
    {i \in 1..Len(df) : df[i][by] = k /\ df[i].pollutant_avg # NaN}

RECURSIVE SumRows(_)
SumRows(I) ==
    IF I = {} THEN 0
    ELSE LET i == CHOOSE j \in I : TRUE
         IN  df[i].pollutant_avg[1] + SumRows(I \ {i})

\* The mean of the present readings of group k, NaN when it has none.
GroupMean(by, k) ==
    IF PresentRows(by, k) = {} THEN NaN
    ELSE <<SumRows(PresentRows(by, k)), Cardinality(PresentRows(by, k))>>

SameMean(a, b) ==
    \/ IsNaN(a) /\ IsNaN(b)
    \/ ~IsNaN(a) /\ ~IsNaN(b) /\ a[1] * b[2] = b[1] * a[2]

\* One entry per group of column `by`, each with the group's mean.
OnePerGroup(result, by, groups) ==
    /\ {result[i].key : i \in 1..Len(result)} \subseteq groups
    /\ \A i, j \in 1..Len(result) : result[i].key = result[j].key => i = j
    /\ \A i \in 1..Len(result) : result[i].pollutant_avg = GroupMean(by, result[i].key)

\* C7: one entry per distinct state, none twice, each with the mean of the
\* state's present readings; means descend, and the states that have no
\* present reading come last.
C7_StateAverages ==
    pc = "done" =>
        LET states == {df[i].state : i \in 1..Len(df)}
        IN  /\ Len(state_avg) = Cardinality(states)
            /\ OnePerGroup(state_avg, "state", states)
            /\ \A i, j \in 1..Len(state_avg) :
                   i < j =>
                       LET a == state_avg[i].pollutant_avg
                           b == state_avg[j].pollutant_avg
                       IN  /\ IsNaN(a) => IsNaN(b)
                           /\ (~IsNaN(a) /\ ~IsNaN(b)) => ~MeanLess(a, b)

\* C7 as stated: as above, and entries of equal mean ascend by state name.
C7_TiesByStateName ==
    /\ C7_StateAverages
    /\ pc = "done" =>
           \A i, j \in 1..Len(state_avg) :
               (i < j /\ SameMean(state_avg[i].pollutant_avg, state_avg[j].pollutant_avg))
                   => Rank(state_avg[i].key) < Rank(state_avg[j].key)

C7_TieThenLower ==
    /\ pc = "done"
    /\ Len(state_avg) = 3
    /\ ~IsNaN(state_avg[3].pollutant_avg)
    /\ SameMean(state_avg[1].pollutant_avg, state_avg[2].pollutant_avg)
    /\ Rank(state_avg[2].key) < Rank(state_avg[1].key)
    /\ MeanLess(state_avg[3].pollutant_avg, state_avg[2].pollutant_avg)

\* C8: the cleanest cities are min(5, number of distinct cities) entries,
\* one per city, ascending by mean, and they lead the ascending list of all
\* cities: no city left out has a smaller mean than a city listed.
C8_CleanestCities ==
    pc = "done" =>
        LET cities == {df[i].city : i \in 1..Len(df)}
            listed == {cleanest_cities[i].key : i \in 1..Len(cleanest_cities)}
        IN  /\ Len(cleanest_cities) = Min(5, Cardinality(cities))
            /\ OnePerGroup(cleanest_cities, "city", cities)
            /\ \A i, j \in 1..Len(cleanest_cities) :
                   i < j =>
                       LET a == cleanest_cities[i].pollutant_avg
                           b == cleanest_cities[j].pollutant_avg
                       IN  /\ IsNaN(a) => IsNaN(b)
                           /\ (~IsNaN(a) /\ ~IsNaN(b)) => ~MeanLess(b, a)
            /\ \A c \in cities \ listed : \A i \in 1..Len(cleanest_cities) :
                   LET a == cleanest_cities[i].pollutant_avg
                   IN  ~IsNaN(GroupMean("city", c)) =>
                           (~IsNaN(a) /\ ~MeanLess(GroupMean("city", c), a))

C8_SixthCityLeftOut ==
    /\ pc = "done"
    /\ Cardinality({df[i].city : i \in 1..Len(df)}) = 6
    /\ Len(cleanest_cities) = 5
    /\ ~IsNaN(cleanest_cities[5].pollutant_avg)
    /\ MeanLess(cleanest_cities[1].pollutant_avg, cleanest_cities[5].pollutant_avg)
    /\ \E c \in {df[i].city : i \in 1..Len(df)} :
           /\ \A i \in 1..5 : cleanest_cities[i].key # c
           /\ ~IsNaN(GroupMean("city", c))
           /\ MeanLess(cleanest_cities[5].pollutant_avg, GroupMean("city", c))

====
